---- MODULE Spec2Model ----
(***************************************************************************)
(* Linguist Corpus (src/App.tsx): the App component's state, its two       *)
(* effects and its handlers, with localStorage, the outstanding generation *)
(* requests and the pending FileReaders as explicit state, and a second    *)
(* session on the same localStorage.                                       *)
(***************************************************************************)
EXTENDS Integers, Sequences, FiniteSets, Bags, TLC

\* ---------------------------------------------------------------- bounds
\* number of ids crypto.randomUUID() hands out in one behaviour
MaxUuid == 1
\* longest History the model builds
MaxCards == 3
\* ids crypto.randomUUID() hands out in a behaviour of consecutive analyzes
MaxAnalyzes == 2
\* longest candidate array of a hand-written import file
MaxFileLen == 2
\* files the user may select while an earlier selected file is still being read
MaxOverlap == 1
\* generation requests the model lets be outstanding at the same time
MaxRequests == 2

\* ------------------------------------------------------------ JSON values
\* localStorage.getItem(API_KEY_STORAGE_KEY) of a missing key
Absent == "<absent>"

\* ids crypto.randomUUID() returns, in the order it returns them
UuidName == <<"u1", "u2", "u3", "u4", "u5">>

\* an id no session of this program generated (a hand-written file)
ForeignId == "x"

\* terms the user analyzes
Terms == {"t"}

\* the terms of a session that analyzes two different terms
MoreTerms == Terms \cup {"s"}

\* a CorpusCard (types.ts), reduced to the fields the handlers read
Card(id, term, meaning) == [id |-> id, term |-> term, meaning |-> meaning]

\* a parsed JSON value: an object with the fields the import reads, or null
JObject(id, term, meaning) ==
  [kind |-> "object", id |-> id, term |-> term, meaning |-> meaning]

JNull == [kind |-> "null", id |-> "", term |-> "", meaning |-> ""]

ValueOf(c) == JObject(c.id, c.term, c.meaning)

CardOf(v) == Card(v.id, v.term, v.meaning)

\* a file or a stored string is a sequence of tokens
Tok(s) == [tok |-> s, val |-> JNull]

ValTok(v) == [tok |-> "value", val |-> v]

RECURSIVE JoinValues(_, _)
\* the elements of an array, separated by commas, each preceded by `lead`
JoinValues(vals, lead) ==
  IF vals = <<>> THEN <<>>
  ELSE lead \o <<ValTok(Head(vals))>>
       \o (IF Len(vals) > 1 THEN <<Tok(",")>> ELSE <<>>)
       \o JoinValues(Tail(vals), lead)

\* JSON.stringify(values)
StringifyValues(vals) == <<Tok("[")>> \o JoinValues(vals, <<>>) \o <<Tok("]")>>

Values(cs) == [i \in DOMAIN cs |-> ValueOf(cs[i])]

\* JSON.stringify(cards)
Stringify(cs) == StringifyValues(Values(cs))

\* JSON.stringify(cards, null, 2): one element per line, indented
StringifyPretty(cs) ==
  IF cs = <<>> THEN <<Tok("["), Tok("]")>>
  ELSE <<Tok("[")>> \o JoinValues(Values(cs), <<Tok("ws")>>)
       \o <<Tok("ws"), Tok("]")>>

RECURSIVE SkipWs(_)
SkipWs(text) ==
  IF text = <<>> THEN <<>>
  ELSE IF Head(text).tok = "ws" THEN SkipWs(Tail(text))
  ELSE <<Head(text)>> \o SkipWs(Tail(text))

RECURSIVE ParseElements(_)
\* the elements between the brackets: value (, value)*; <<"error">> otherwise
ParseElements(toks) ==
  IF toks = <<>> THEN [ok |-> FALSE, elems |-> <<>>]
  ELSE IF Head(toks).tok # "value" THEN [ok |-> FALSE, elems |-> <<>>]
  ELSE IF Len(toks) = 1 THEN [ok |-> TRUE, elems |-> <<Head(toks).val>>]
  ELSE IF toks[2].tok # "," THEN [ok |-> FALSE, elems |-> <<>>]
  ELSE LET rest == ParseElements(SubSeq(toks, 3, Len(toks)))
       IN [ok |-> rest.ok,
           elems |-> IF rest.ok THEN <<Head(toks).val>> \o rest.elems ELSE <<>>]

\* JSON.parse(text): kind "array" with its elements, kind "other" for any other
\* JSON value, kind "error" when JSON.parse throws a SyntaxError
Parse(text) ==
  LET t == SkipWs(text)
      n == Len(t)
  IN IF n = 1 /\ t[1].tok = "{}" THEN [kind |-> "other", elems |-> <<>>]
     ELSE IF n >= 2 /\ t[1].tok = "[" /\ t[n].tok = "]"
       THEN IF n = 2 THEN [kind |-> "array", elems |-> <<>>]
            ELSE LET p == ParseElements(SubSeq(t, 2, n - 1))
                 IN IF p.ok THEN [kind |-> "array", elems |-> p.elems]
                    ELSE [kind |-> "error", elems |-> <<>>]
     ELSE [kind |-> "error", elems |-> <<>>]

\* ------------------------------------------------------------------ state
VARIABLES
  cards,          \* useState<CorpusCard[]>: the History, newest first
  loading,        \* useState(false)
  error,          \* useState<string | null>: "null" or the message shown
  apiKey,         \* useState: the in-memory credential
  isSettingsOpen, \* useState(false)
  historyStore,   \* localStorage[STORAGE_KEY]: NoItem or Item(text)
  keyStore,       \* localStorage[API_KEY_STORAGE_KEY]: Absent or a string
  mounted,        \* the effects of the first render have run
  crashed,        \* a render threw and React unmounted the component tree
  savePending,    \* cards changed in a render whose save effect has not run yet
  requests,       \* generateCorpusEntry calls that have not resolved: the term and
                  \* the cards of the render whose handleAnalyze issued the call
  readers,        \* FileReaders still reading, as a bag: the file text and the
                  \* cards of the render whose handleImportFile created the reader
  download,       \* the text of the file handleExport last downloaded
  nextUuid,       \* how many ids crypto.randomUUID() has returned, plus one
  buildKey,       \* process.env.API_KEY of this build: a key, or "" when unset
  peer,           \* a second session (tab) on the same localStorage: its state
  lastWriter,     \* history: the session whose effect wrote historyStore last
  exported,       \* history: the cards handleExport last serialized
  lastSaved,      \* history: the argument of the last handleSaveApiKey call
  last            \* history: the last operation that sets cards or reads a file

vars == <<cards, loading, error, apiKey, isSettingsOpen, historyStore, keyStore,
          mounted, crashed, savePending, requests, readers, download, nextUuid,
          buildKey, peer, lastWriter, exported, lastSaved, last>>

\* the error messages of handleAnalyze
ErrNoKey == "api key not set"
ErrBadKey == "api key invalid"
ErrFailed == "analysis failed"

\* the alerts of reader.onload
AlertImported == "imported"
AlertNothingNew == "nothing new"
AlertReadFailed == "read failed"
NoAlert == "no alert"

\* lastSaved before any handleSaveApiKey call
NeverSaved == "<never>"

\* process.env.API_KEY of a development build
EnvKey == "envkey"

\* keys the user types into the settings dialog
TypedKeys == {"", "k1", "k2"}

\* localStorage[STORAGE_KEY] when the key is missing, and when it holds a text
NoItem == [present |-> FALSE, text |-> <<>>]

Item(text) == [present |-> TRUE, text |-> text]

\* last: the operation, and for reader.onload the text read, the kind of value
\* JSON.parse gave, the alert shown and the number of cards the alert reports
LastOf(op, text, kind, alert, count) ==
  [op |-> op, text |-> text, kind |-> kind, alert |-> alert, count |-> count]

LastOp(op) == LastOf(op, <<>>, "none", NoAlert, 0)

\* the component is on screen: its first effects have run and no render threw
Alive == mounted /\ ~crashed

\* ids of the cards of a History
Ids(cs) == {cs[i].id : i \in DOMAIN cs}

\* ids crypto.randomUUID() has returned so far
IssuedIds == {UuidName[i] : i \in 1 .. (nextUuid - 1)}

\* contents of localStorage a session can start from: nothing stored, a history an
\* earlier session saved, a value that is not parseable, or a JSON value that is
\* no array
StoredHistories ==
  {NoItem, Item(Stringify(<<>>)), Item(Stringify(<<Card(ForeignId, "t", "m")>>)),
   Item(<<Tok("["), ValTok(ValueOf(Card(ForeignId, "t", "m")))>>),
   Item(<<Tok("{}")>>)}

\* localStorage.getItem(API_KEY_STORAGE_KEY) || process.env.API_KEY || ''
InitialApiKey(stored, env) ==
  IF stored # Absent /\ stored # "" THEN stored ELSE env

\* the state of a session when App has rendered for the first time and no effect
\* has run yet
NewSession(key) ==
  [cards |-> <<>>, loading |-> FALSE, error |-> "null", apiKey |-> key,
   isSettingsOpen |-> FALSE, mounted |-> FALSE, crashed |-> FALSE,
   savePending |-> FALSE, requests |-> <<>>, readers |-> EmptyBag,
   last |-> LastOp("none")]

\* the state of the session the variables describe
Here ==
  [cards |-> cards, loading |-> loading, error |-> error, apiKey |-> apiKey,
   isSettingsOpen |-> isSettingsOpen, mounted |-> mounted, crashed |-> crashed,
   savePending |-> savePending, requests |-> requests, readers |-> readers,
   last |-> last]

\* the variables describe session s
Is(s) ==
  /\ cards = s.cards
  /\ loading = s.loading
  /\ error = s.error
  /\ apiKey = s.apiKey
  /\ isSettingsOpen = s.isSettingsOpen
  /\ mounted = s.mounted
  /\ crashed = s.crashed
  /\ savePending = s.savePending
  /\ requests = s.requests
  /\ readers = s.readers
  /\ last = s.last

\* the variables describe session s in the next state
Becomes(s) ==
  /\ cards' = s.cards
  /\ loading' = s.loading
  /\ error' = s.error
  /\ apiKey' = s.apiKey
  /\ isSettingsOpen' = s.isSettingsOpen
  /\ mounted' = s.mounted
  /\ crashed' = s.crashed
  /\ savePending' = s.savePending
  /\ requests' = s.requests
  /\ readers' = s.readers
  /\ last' = s.last

Init ==
  /\ historyStore \in StoredHistories
  /\ keyStore \in {Absent, "k1"}
  /\ buildKey \in {EnvKey, ""}
  /\ Is(NewSession(InitialApiKey(keyStore, buildKey)))
  /\ peer = NewSession(InitialApiKey(keyStore, buildKey))
  /\ download = <<>>
  /\ nextUuid = 1
  /\ lastWriter = "none"
  /\ exported = <<>>
  /\ lastSaved = NeverSaved

\* ---------------------------------------------------------------- effects
RECURSIVE CardsOf(_)
CardsOf(vals) ==
  IF vals = <<>> THEN <<>> ELSE <<CardOf(Head(vals))>> \o CardsOf(Tail(vals))

\* a load effect without its try/catch: the SyntaxError of JSON.parse escapes
ParseErrorUncaught == TRUE

\* whether the SyntaxError of JSON.parse escapes the load effect: its catch block
\* logs the error and returns
ParseErrorEscapes == FALSE

\* the render after setCards(value): cards.length and cards.map(...) of a value that
\* is no array throw, and React unmounts the tree
RenderThrows(kind) ==
  \/ kind = "other"
  \/ kind = "error" /\ ParseErrorEscapes

\* the two effects of the first render, in the order they are declared: the load
\* effect queues setCards(JSON.parse(saved)), the save effect writes the cards of
\* the first render, which are []; last keeps the text the load effect read and
\* what JSON.parse made of it. When the render of the loaded value throws, cards
\* keeps [] here and crashed says that the session is gone.
Mount ==
  /\ ~mounted
  /\ mounted' = TRUE
  /\ LET saved == historyStore
         truthy == saved.present /\ saved.text # <<>>
         p == Parse(saved.text)
         loaded == truthy /\ p.kind = "array"
     IN /\ cards' = IF loaded THEN CardsOf(p.elems) ELSE cards
        /\ savePending' = loaded
        /\ crashed' = (truthy /\ RenderThrows(p.kind))
        /\ last' = LastOf("mount", saved.text, IF truthy THEN p.kind ELSE "absent",
                          NoAlert, 0)
  /\ historyStore' = Item(Stringify(cards))
  /\ lastWriter' = "here"
  /\ UNCHANGED <<loading, error, apiKey, isSettingsOpen, keyStore, requests,
                 readers, download, nextUuid, exported, lastSaved, buildKey,
                 peer>>

RECURSIVE NotIn(_, _)
\* the cards of cs whose id no card of `others` has
NotIn(cs, others) ==
  IF cs = <<>> THEN <<>>
  ELSE IF Head(cs).id \in Ids(others) THEN NotIn(Tail(cs), others)
  ELSE <<Head(cs)>> \o NotIn(Tail(cs), others)

\* a save effect that merges: it keeps the stored cards the session does not have
SavedTextMerged(cs) ==
  LET p == Parse(historyStore.text)
      stored == IF historyStore.present /\ p.kind = "array"
                  THEN CardsOf(p.elems) ELSE <<>>
  IN Item(Stringify(cs \o NotIn(stored, cs)))

\* a save effect that writes the cards of the render before the last change
SavedTextWithoutNewest(cs) == Item(Stringify(IF cs = <<>> THEN cs ELSE Tail(cs)))

\* what the save effect writes for the cards of the committed render
SavedText(cs) == Item(Stringify(cs))

\* useEffect(..., [cards]) after a render in which cards changed; React runs it
\* after the handler that changed cards has returned, and other handlers may run
\* before it
SaveEffect ==
  /\ mounted
  /\ savePending
  /\ historyStore' = SavedText(cards)
  /\ savePending' = FALSE
  /\ lastWriter' = "here"
  /\ UNCHANGED <<cards, loading, error, apiKey, isSettingsOpen, keyStore,
                 mounted, requests, readers, download, nextUuid, exported,
                 lastSaved, last, crashed, buildKey, peer>>

\* --------------------------------------------------------------- credential
\* a handleSaveApiKey that stores the key whatever it is
KeyStoreAfterSaveEmptyStored(key) == key

\* what handleSaveApiKey leaves in localStorage[API_KEY_STORAGE_KEY]
KeyStoreAfterSave(key) == IF key # "" THEN key ELSE Absent

handleSaveApiKey(key) ==
  /\ Alive
  /\ apiKey' = key
  /\ keyStore' = KeyStoreAfterSave(key)
  /\ lastSaved' = key
  /\ UNCHANGED <<cards, loading, error, isSettingsOpen, historyStore, mounted,
                 savePending, requests, readers, download, nextUuid, exported,
                 last, crashed, buildKey, peer, lastWriter>>

\* ------------------------------------------------------------------ analyze
\* InputSection (isLoading = loading) offers its trigger only while not loading
InputSectionEnabled == ~loading

\* a handleAnalyze that does not set loading
LoadingNotSet == loading

\* the value setLoading(true) gives loading
LoadingAfterStart == TRUE

\* a handleAnalyze without its finally block: loading stays set
LoadingLeftSet == TRUE

\* the value setLoading(false) of the finally block gives loading
LoadingAfterSettled == FALSE

\* a test of the credential that lets the empty credential pass
NoCredentialIgnored(key) == FALSE

\* !apiKey
NoCredential(key) == key = ""

\* handleAnalyze up to its await
handleAnalyze(term) ==
  /\ Alive
  /\ InputSectionEnabled
  /\ Len(requests) < MaxRequests
  /\ IF NoCredential(apiKey)
       THEN /\ isSettingsOpen' = TRUE
            /\ error' = ErrNoKey
            /\ UNCHANGED <<loading, requests>>
       ELSE /\ loading' = LoadingAfterStart
            /\ error' = "null"
            /\ requests' = Append(requests, [term |-> term, cards |-> cards])
            /\ UNCHANGED isSettingsOpen
  /\ UNCHANGED <<cards, apiKey, historyStore, keyStore, mounted, savePending,
                 readers, download, nextUuid, exported, lastSaved, last, crashed,
                 buildKey, peer, lastWriter>>

\* an id generator that returns an id a stored card already has
RandomUUIDInUse(n) == ForeignId

\* crypto.randomUUID(): the n-th call returns the n-th id, never one returned before
RandomUUID(n) == UuidName[n]

\* the entry generateCorpusEntry resolves with
GeneratedEntry(term) == [term |-> term, meaning |-> "m"]

Remove(seq, i) == SubSeq(seq, 1, i - 1) \o SubSeq(seq, i + 1, Len(seq))

\* setCards(prev => [...prev, newCard]): the new card after the cards
AppendNew(newCard, prev, issued) == prev \o <<newCard>>

\* setCards([newCard, ...cards]): the new card before the cards of the render that
\* issued the request
PrependToIssued(newCard, prev, issued) == <<newCard>> \o issued

\* setCards(prev => [newCard, ...prev]): the new card before the cards the updater
\* receives
Prepend(newCard, prev, issued) == <<newCard>> \o prev

\* handleAnalyze after its await, when generateCorpusEntry resolved with an entry,
\* in a behaviour that lets randomUUID return `limit` ids; last counts the cards
\* History had when the request was issued
AnalyzeSucceedsWithin(i, limit) ==
  /\ i \in DOMAIN requests
  /\ nextUuid <= limit
  /\ Len(cards) < MaxCards
  /\ LET entry == GeneratedEntry(requests[i].term)
         newCard == Card(RandomUUID(nextUuid), entry.term, entry.meaning)
     IN cards' = Prepend(newCard, cards, requests[i].cards)
  /\ nextUuid' = nextUuid + 1
  /\ savePending' = TRUE
  /\ loading' = LoadingAfterSettled
  /\ requests' = Remove(requests, i)
  /\ last' = LastOf("analyze", <<>>, "none", NoAlert, Len(requests[i].cards))
  /\ UNCHANGED <<error, apiKey, isSettingsOpen, historyStore, keyStore, mounted,
                 readers, download, exported, lastSaved, crashed, buildKey, peer,
                 lastWriter>>

AnalyzeSucceeds(i) == AnalyzeSucceedsWithin(i, MaxUuid)

\* handleAnalyze after its await, when generateCorpusEntry rejected
AnalyzeFails(i, aboutKey) ==
  /\ i \in DOMAIN requests
  /\ IF aboutKey
       THEN error' = ErrBadKey /\ isSettingsOpen' = TRUE
       ELSE error' = ErrFailed /\ UNCHANGED isSettingsOpen
  /\ loading' = LoadingAfterSettled
  /\ requests' = Remove(requests, i)
  /\ UNCHANGED <<cards, apiKey, historyStore, keyStore, mounted, savePending,
                 readers, download, nextUuid, exported, lastSaved, last, crashed,
                 buildKey, peer, lastWriter>>

\* ------------------------------------------------------------------- delete
\* a delete that drops the newest card, whatever id was asked for
WithoutNewest(cs, id) == IF cs = <<>> THEN cs ELSE Tail(cs)

RECURSIVE WithoutId(_, _)
\* prev.filter(c => c.id !== id)
WithoutId(cs, id) ==
  IF cs = <<>> THEN <<>>
  ELSE IF Head(cs).id = id THEN WithoutId(Tail(cs), id)
  ELSE <<Head(cs)>> \o WithoutId(Tail(cs), id)

\* handleDelete with window.confirm answered OK; answered Cancel it changes nothing.
\* last counts the cards the filter dropped.
handleDelete(id) ==
  /\ Alive
  /\ cards' = WithoutId(cards, id)
  /\ savePending' = TRUE
  /\ last' = LastOf("delete", <<>>, "none", NoAlert,
                    Len(cards) - Len(WithoutId(cards, id)))
  /\ UNCHANGED <<loading, error, apiKey, isSettingsOpen, historyStore, keyStore,
                 mounted, requests, readers, download, nextUuid, exported,
                 lastSaved, crashed, buildKey, peer, lastWriter>>

\* ------------------------------------------------------------ export, import
handleExport ==
  /\ Alive
  /\ download' = StringifyPretty(cards)
  /\ exported' = cards
  /\ UNCHANGED <<cards, loading, error, apiKey, isSettingsOpen, historyStore,
                 keyStore, mounted, savePending, requests, readers, nextUuid,
                 lastSaved, last, crashed, buildKey, peer, lastWriter>>

\* elements a hand-written file may hold: null, a card with an id this session or
\* another one issued, and cards whose term or meaning is empty
CandidateValues ==
  {JNull, JObject(ForeignId, "", "m"), JObject(ForeignId, "t", "")}
  \cup {JObject(id, "t", "m") : id \in {ForeignId} \cup IssuedIds}

CandidateArrays ==
  UNION {[1 .. n -> CandidateValues] : n \in 0 .. MaxFileLen}

\* a file cut short: its text without its last token
Truncations(text) == {SubSeq(text, 1, Len(text) - 1)}

\* handleImportFile: the reader's onload closes over the cards of this render
handleImportFile(file) ==
  /\ Alive
  /\ readers' = readers (+) SetToBag({[text |-> file, cards |-> cards]})
  /\ UNCHANGED <<cards, loading, error, apiKey, isSettingsOpen, historyStore,
                 keyStore, mounted, savePending, requests, download, nextUuid,
                 exported, lastSaved, last, crashed, buildKey, peer, lastWriter>>

\* c.term && c.meaning && !existingIds.has(c.id)
Accepts(c, existingIds) ==
  c.term # "" /\ c.meaning # "" /\ c.id \notin existingIds

RECURSIVE FilterReversed(_, _)
\* a filter that collects the accepted candidates in reverse order
FilterReversed(vals, existingIds) ==
  IF vals = <<>> THEN <<>>
  ELSE IF Accepts(Head(vals), existingIds)
    THEN FilterReversed(Tail(vals), existingIds) \o <<Head(vals)>>
  ELSE FilterReversed(Tail(vals), existingIds)

RECURSIVE Filter(_, _)
\* imported.filter(...)
Filter(vals, existingIds) ==
  IF vals = <<>> THEN <<>>
  ELSE IF Accepts(Head(vals), existingIds)
    THEN <<Head(vals)>> \o Filter(Tail(vals), existingIds)
  ELSE Filter(Tail(vals), existingIds)

\* reading a property of null throws a TypeError inside the filter callback
Throws(vals) == \E i \in DOMAIN vals : vals[i].kind = "null"

\* a catch block that swallows the error
CaughtSilently(prev) == [cards |-> prev, alert |-> NoAlert, count |-> 0]

\* the catch block of reader.onload
Caught(prev) == [cards |-> prev, alert |-> AlertReadFailed, count |-> 0]

\* the body of reader.onload: closureCards are the cards the closure captured,
\* prev the cards the setCards updater receives
OnLoadResult(text, closureCards, prev) ==
  LET imported == Parse(text)
      existingIds == Ids(closureCards)
      newCards == CardsOf(Filter(imported.elems, existingIds))
  IN IF imported.kind = "error"
       THEN Caught(prev)
     ELSE IF imported.kind # "array"
       THEN [cards |-> prev, alert |-> NoAlert, count |-> 0]
     ELSE IF Throws(imported.elems)
       THEN Caught(prev)
     ELSE IF Len(newCards) > 0
       THEN [cards |-> newCards \o prev, alert |-> AlertImported,
             count |-> Len(newCards)]
     ELSE [cards |-> prev, alert |-> AlertNothingNew, count |-> 0]

\* reader.onload of a pending reader r
OnLoad(r) ==
  /\ BagIn(r, readers)
  /\ LET res == OnLoadResult(r.text, r.cards, cards)
     IN /\ Len(res.cards) <= MaxCards
        /\ cards' = res.cards
        /\ savePending' = (savePending \/ res.alert = AlertImported)
        /\ last' = LastOf("load", r.text, Parse(r.text).kind, res.alert, res.count)
  /\ readers' = readers (-) SetToBag({r})
  /\ UNCHANGED <<loading, error, apiKey, isSettingsOpen, historyStore, keyStore,
                 mounted, requests, download, nextUuid, exported, lastSaved,
                 crashed, buildKey, peer, lastWriter>>

\* ----------------------------------------------------------------- settings
OpenSettings ==
  /\ Alive
  /\ isSettingsOpen' = TRUE
  /\ UNCHANGED <<cards, loading, error, apiKey, historyStore, keyStore, mounted,
                 savePending, requests, readers, download, nextUuid, exported,
                 lastSaved, last, crashed, buildKey, peer, lastWriter>>

CloseSettings ==
  /\ Alive
  /\ isSettingsOpen' = FALSE
  /\ UNCHANGED <<cards, loading, error, apiKey, historyStore, keyStore, mounted,
                 savePending, requests, readers, download, nextUuid, exported,
                 lastSaved, last, crashed, buildKey, peer, lastWriter>>

\* ----------------------------------------------------------------- sessions
\* the page is reloaded: the session is constructed again from localStorage; what
\* the old session awaited (requests, readers) resolves into nothing
Reload ==
  /\ mounted
  /\ Becomes(NewSession(InitialApiKey(keyStore, buildKey)))
  /\ lastWriter' = IF lastWriter = "here" THEN "gone" ELSE lastWriter
  /\ UNCHANGED <<historyStore, keyStore, download, nextUuid, buildKey, peer,
                 exported, lastSaved>>

\* the other tab gets its turn: the variables describe that session from now on
SwitchTab ==
  /\ Becomes(peer)
  /\ peer' = Here
  /\ lastWriter' = CASE lastWriter = "here" -> "peer"
                      [] lastWriter = "peer" -> "here"
                      [] OTHER -> lastWriter
  /\ UNCHANGED <<historyStore, keyStore, download, nextUuid, buildKey, exported,
                 lastSaved>>

\* ------------------------------------------------------------ specifications
\* hand-written files: arrays of candidate values, and a JSON value that is no array
HandFiles == {StringifyValues(a) : a \in CandidateArrays} \cup {<<Tok("{}")>>}

\* the downloaded export, whole or cut short
BackupFiles ==
  IF download # <<>> THEN {download} \cup Truncations(download) ELSE {}

FileChoices == HandFiles \cup BackupFiles

\* a session whose stored credential is set, in a build without a key of its own
InitWithKey == Init /\ keyStore # Absent /\ buildKey = ""

\* the user selects one of `files` while at most `pending` readers are reading
Select(files, pending) ==
  /\ BagCardinality(readers) <= pending
  /\ \E file \in files : handleImportFile(file)

\* every handler, any file, reloads and a second tab
Next ==
  \/ Mount
  \/ SaveEffect
  \/ \E key \in TypedKeys : handleSaveApiKey(key)
  \/ \E term \in Terms : handleAnalyze(term)
  \/ \E i \in 1 .. MaxRequests : AnalyzeSucceeds(i)
  \/ \E i \in 1 .. MaxRequests, aboutKey \in BOOLEAN : AnalyzeFails(i, aboutKey)
  \/ \E id \in Ids(cards) \cup {ForeignId} : handleDelete(id)
  \/ handleExport
  \/ Select(FileChoices, MaxOverlap)
  \/ \E r \in BagToSet(readers) : OnLoad(r)
  \/ OpenSettings
  \/ CloseSettings
  \/ Reload
  \/ SwitchTab

Spec == Init /\ [][Next]_vars

\* sessions that analyze, delete and edit the credential, and import nothing
NextHistory ==
  \/ Mount
  \/ SaveEffect
  \/ \E key \in TypedKeys : handleSaveApiKey(key)
  \/ \E term \in Terms : handleAnalyze(term)
  \/ \E i \in 1 .. MaxRequests : AnalyzeSucceeds(i)
  \/ \E i \in 1 .. MaxRequests, aboutKey \in BOOLEAN : AnalyzeFails(i, aboutKey)
  \/ \E id \in Ids(cards) \cup {ForeignId} : handleDelete(id)
  \/ OpenSettings
  \/ CloseSettings

SpecHistory == Init /\ [][NextHistory]_vars

\* the generateCorpusEntry call of a request settles: it resolves or it rejects
Settles ==
  \/ \E i \in 1 .. MaxRequests : AnalyzeSucceeds(i)
  \/ \E i \in 1 .. MaxRequests, aboutKey \in BOOLEAN : AnalyzeFails(i, aboutKey)

\* the same sessions, every generateCorpusEntry call settling in the end
SpecSettling == SpecHistory /\ WF_vars(Settles)

\* sessions with a credential that import hand-written files and delete cards, a
\* second file being selected while the first is still read
NextImport ==
  \/ Mount
  \/ SaveEffect
  \/ \E id \in Ids(cards) \cup {ForeignId} : handleDelete(id)
  \/ Select(HandFiles, MaxOverlap)
  \/ \E r \in BagToSet(readers) : OnLoad(r)

SpecImport == InitWithKey /\ [][NextImport]_vars

\* sessions with a credential that export and import their own exports, whole or
\* cut short, one file at a time, and analyze while randomUUID has an id left
NextBackup ==
  \/ Mount
  \/ SaveEffect
  \/ nextUuid <= MaxUuid /\ \E term \in Terms : handleAnalyze(term)
  \/ \E i \in 1 .. MaxRequests : AnalyzeSucceeds(i)
  \/ \E id \in Ids(cards) \cup {ForeignId} : handleDelete(id)
  \/ handleExport
  \/ Select(BackupFiles, 0)
  \/ \E r \in BagToSet(readers) : OnLoad(r)

SpecBackup == InitWithKey /\ [][NextBackup]_vars

\* a file holding one card that no session of this program generated
OneCardFiles == {Stringify(<<Card(ForeignId, "t", "m")>>)}

\* sessions with a credential that analyze two terms one after the other, delete
\* and import a one-card file, also while a request is outstanding
NextAnalyze ==
  \/ Mount
  \/ SaveEffect
  \/ \E term \in MoreTerms : handleAnalyze(term)
  \/ \E i \in 1 .. MaxRequests : AnalyzeSucceedsWithin(i, MaxAnalyzes)
  \/ \E id \in Ids(cards) \cup {ForeignId} : handleDelete(id)
  \/ Select(OneCardFiles, 0)
  \/ \E r \in BagToSet(readers) : OnLoad(r)

SpecAnalyze == InitWithKey /\ [][NextAnalyze]_vars

\* sessions that set, change and remove the credential between analyzes of two terms
NextCredential ==
  \/ Mount
  \/ SaveEffect
  \/ \E key \in TypedKeys : handleSaveApiKey(key)
  \/ \E term \in MoreTerms : handleAnalyze(term)
  \/ \E i \in 1 .. MaxRequests : AnalyzeSucceeds(i)
  \/ \E i \in 1 .. MaxRequests, aboutKey \in BOOLEAN : AnalyzeFails(i, aboutKey)

SpecCredential == Init /\ [][NextCredential]_vars

\* sessions that start from whatever localStorage holds, analyze, delete, import a
\* one-card file and are reloaded, so that a session also starts from what an
\* earlier one saved
NextStartup ==
  \/ Mount
  \/ SaveEffect
  \/ \E term \in Terms : handleAnalyze(term)
  \/ \E i \in 1 .. MaxRequests : AnalyzeSucceeds(i)
  \/ \E id \in Ids(cards) \cup {ForeignId} : handleDelete(id)
  \/ Select(OneCardFiles, 0)
  \/ \E r \in BagToSet(readers) : OnLoad(r)
  \/ Reload

SpecStartup == InitWithKey /\ [][NextStartup]_vars

\* two tabs on one localStorage: each analyzes and deletes, in any interleaving
NextTabs ==
  \/ Mount
  \/ SaveEffect
  \/ nextUuid <= MaxAnalyzes /\ \E term \in Terms : handleAnalyze(term)
  \/ \E i \in 1 .. MaxRequests : AnalyzeSucceedsWithin(i, MaxAnalyzes)
  \/ \E id \in Ids(cards) \cup {ForeignId} : handleDelete(id)
  \/ SwitchTab

SpecTabs == InitWithKey /\ [][NextTabs]_vars

C2_ImportKeepsIdsUnique ==
  \A i, j \in DOMAIN cards : i # j => cards[i].id # cards[j].id

RECURSIVE ClaimedAccepted(_, _)
\* the candidates the claim says a merge into `history` accepts, in input order
ClaimedAccepted(vals, history) ==
  IF vals = <<>> THEN <<>>
  ELSE IF /\ Head(vals).kind = "object"
          /\ Head(vals).term # ""
          /\ Head(vals).meaning # ""
          /\ Head(vals).id \notin Ids(history)
    THEN <<Head(vals)>> \o ClaimedAccepted(Tail(vals), history)
  ELSE ClaimedAccepted(Tail(vals), history)

\* C3: a merge of a candidate array accepts exactly the candidates with a non-empty
\* term and meaning whose id is not in History; History becomes the accepted
\* candidates in input order followed by the previous History, and the reported
\* count is the number of accepted candidates.
C3_MergeAcceptsExactly ==
  [][\A r \in BagToSet(readers) :
       (OnLoad(r) /\ Parse(r.text).kind = "array") =>
         LET accepted == ClaimedAccepted(Parse(r.text).elems, cards)
         IN /\ cards' = CardsOf(accepted) \o cards
            /\ last'.count = Len(accepted)]_vars

\* C4: merging the same candidates a second time, after the first merge has
\* completed and with History untouched in between, accepts 0 cards and leaves
\* History as the first merge left it.
C4_MergeIdempotent ==
  [][\A r \in BagToSet(readers) :
       (OnLoad(r) /\ last.op = "load" /\ last.text = r.text) =>
         (cards' = cards /\ last'.count = 0)]_vars

C6_NonArrayReported ==
  (last.op = "load" /\ last.kind = "other") => last.alert = AlertReadFailed

\* C7: importing a file that is not parseable JSON alerts an import failure and
\* leaves the in-memory History and the persisted history unchanged.
C7_UnparseableImportFails ==
  [][\A r \in BagToSet(readers) :
       (OnLoad(r) /\ Parse(r.text).kind = "error") =>
         /\ last'.alert = AlertReadFailed
         /\ cards' = cards
         /\ historyStore' = historyStore
         /\ savePending' = savePending]_vars

\* a truncated export of a non-empty History was read and reported as a failure
C7_Witness ==
  /\ last.op = "load"
  /\ last.kind = "error"
  /\ last.text \in Truncations(download)
  /\ last.alert = AlertReadFailed
  /\ cards # <<>>
  /\ historyStore = Item(Stringify(cards))

\* C8: at most one generation request is outstanding at any time.
C8_AtMostOneRequest == Len(requests) <= 1

\* a request is outstanding and the trigger is disabled
C8_Witness == Len(requests) = 1 /\ loading /\ ~InputSectionEnabled

\* C9 as stated: once a History mutation (analyze, delete, import-merge) has
\* returned, the persisted history equals the in-memory History.
C9_PersistedWhenHandlerReturns ==
  last.op \in {"analyze", "delete", "load"} =>
    historyStore = Item(Stringify(cards))

\* C9 amended: whenever no save effect is pending after a History mutation, the
\* persisted history is the serialization of the in-memory History.
C9_PersistedOnceEffectRan ==
  (mounted /\ ~savePending) => historyStore = Item(Stringify(cards))

\* an import-merge that added cards has been persisted by the save effect
C9_Witness ==
  /\ last.op = "load"
  /\ last.alert = AlertImported
  /\ ~savePending
  /\ historyStore = Item(Stringify(cards))

\* C10: after any handleSaveApiKey calls the stored credential is absent exactly
\* when the last saved value was empty and otherwise is that value, the store never
\* holds an empty string, and the in-memory credential is the last saved value.
C10_CredentialFollowsLastSave ==
  /\ keyStore # ""
  /\ lastSaved # NeverSaved =>
       /\ apiKey = lastSaved
       /\ (keyStore = Absent) <=> (lastSaved = "")
       /\ lastSaved # "" => keyStore = lastSaved

\* a request was started with a credential, and the credential was then erased
C10_Witness ==
  /\ lastSaved = ""
  /\ keyStore = Absent
  /\ apiKey = ""
  /\ Len(requests) = 1

\* C11: once the credential has been removed (the last handleSaveApiKey call saved
\* the empty string), handleAnalyze of any term issues no request, leaves loading
\* false, shows the missing-credential error and leaves History and the persisted
\* history as they are.
C11_RemovedCredentialFailsAnalyze ==
  [][\A term \in MoreTerms :
       (lastSaved = "" /\ handleAnalyze(term)) =>
         /\ requests' = requests
         /\ ~loading'
         /\ error' = ErrNoKey
         /\ cards' = cards
         /\ historyStore' = historyStore]_vars

\* a session that analyzed with a credential, removed it and then analyzed again
C11_Witness ==
  /\ lastSaved = ""
  /\ nextUuid > 1
  /\ error = ErrNoKey
  /\ isSettingsOpen
  /\ requests = <<>>
  /\ ~loading

\* the load effect read a stored history that JSON.parse rejected, and no handler
\* has set cards since
CorruptStart == last.op = "mount" /\ last.kind = "error"

\* C12: after a start from a stored history that is not parseable JSON the History
\* is empty, nothing was thrown (the component is alive), the persisted history is
\* the empty array, and the next analyze, delete or import acts on the empty
\* History: analyze yields the one new card, delete yields the empty History, the
\* import yields the cards of the file.
C12_CorruptStoreLoadsEmpty ==
  /\ [](CorruptStart =>
         /\ cards = <<>>
         /\ Alive
         /\ ~savePending
         /\ historyStore = Item(Stringify(<<>>)))
  /\ [][CorruptStart =>
         /\ last'.op = "analyze" =>
              /\ Len(cards') = 1
              /\ cards'[1].id = RandomUUID(nextUuid)
         /\ last'.op = "delete" => cards' = <<>>
         /\ last'.op = "load" =>
              /\ cards' = CardsOf(Parse(last'.text).elems)
              /\ last'.count = Len(cards')]_vars

\* after a start from an unparseable stored history the session has accepted an
\* analyze request and a file to import
C12_Witness ==
  /\ CorruptStart
  /\ cards = <<>>
  /\ Len(requests) = 1
  /\ BagCardinality(readers) = 1

\* the position of an id in the order crypto.randomUUID() returned the ids
UuidIndex(id) == CHOOSE n \in DOMAIN UuidName : UuidName[n] = id

\* C13: a successful analyze puts exactly one card, with an id no card had, at
\* position 1 and leaves the previous cards behind it in their order; the cards
\* analyzes created are listed newest first in History.
C13_PrependNewestFirst ==
  /\ [][\A i \in DOMAIN requests :
          AnalyzeSucceedsWithin(i, MaxAnalyzes) =>
            /\ Len(cards') = Len(cards) + 1
            /\ cards'[1].id \notin Ids(cards)
            /\ \A k \in DOMAIN cards : cards'[k + 1] = cards[k]]_vars
  /\ [](\A i, j \in DOMAIN cards :
          (i < j /\ cards[i].id \in IssuedIds /\ cards[j].id \in IssuedIds) =>
            UuidIndex(cards[i].id) > UuidIndex(cards[j].id))

\* two terms were analyzed one after the other: the second card is before the first
C13_Witness ==
  /\ last.op = "analyze"
  /\ Len(cards) >= 2
  /\ cards[1].id = RandomUUID(2)
  /\ cards[2].id = RandomUUID(1)
  /\ cards[1].term # cards[2].term

\* C14: handleDelete(id) leaves exactly the cards whose id is not id, in their
\* previous order: one card fewer when a card has the id, History unchanged when
\* none has; it shows no error and the component stays alive.
C14_RemoveById ==
  [][\A id \in Ids(cards) \cup {ForeignId} :
       handleDelete(id) =>
         LET Other(c) == c.id # id
         IN /\ cards' = SelectSeq(cards, Other)
            /\ id \notin Ids(cards')
            /\ id \in Ids(cards) => Len(cards') = Len(cards) - 1
            /\ id \notin Ids(cards) => cards' = cards
            /\ error' = error
            /\ Alive']_vars

\* the middle one of three cards was deleted: the newest and the oldest remain
C14_Witness ==
  /\ last.op = "delete"
  /\ last.count = 1
  /\ nextUuid = 3
  /\ Len(cards) = 2
  /\ cards[1].id = RandomUUID(2)
  /\ cards[2].id = ForeignId

\* C15: loading is set exactly while a request is outstanding; handleAnalyze with a
\* credential goes from not loading to loading; when the call resolves loading is
\* reset, one card is added and no error is shown; when it rejects loading is
\* reset, an error is shown and History is unchanged; and with every call settling,
\* a loading session always becomes idle again.
C15_IdleRequestingIdle ==
  /\ [](loading <=> requests # <<>>)
  /\ [][/\ \A term \in Terms :
            (handleAnalyze(term) /\ requests' # requests) => (~loading /\ loading')
        /\ \A i \in DOMAIN requests :
            AnalyzeSucceeds(i) =>
              /\ loading /\ ~loading'
              /\ Len(cards') = Len(cards) + 1
              /\ error' = "null"
        /\ \A i \in DOMAIN requests, aboutKey \in BOOLEAN :
            AnalyzeFails(i, aboutKey) =>
              /\ loading /\ ~loading'
              /\ error' \in {ErrBadKey, ErrFailed}
              /\ cards' = cards]_vars
  /\ (loading ~> ~loading)

\* one request has succeeded, a later one has failed, and the session is idle
C15_Witness ==
  /\ ~loading
  /\ requests = <<>>
  /\ error = ErrFailed
  /\ nextUuid > 1
  /\ cards # <<>>

\* C16: with two sessions on one store, a step of one session leaves the state of
\* the other as it is, and the persisted history is the serialization of the
\* History of the session whose effect wrote last (as long as that session has no
\* newer change waiting for its save effect), whatever cards the other session has.
C16_LastWriterWins ==
  /\ [][SwitchTab \/ peer' = peer]_vars
  /\ []((lastWriter = "here" /\ ~savePending) =>
          historyStore = Item(Stringify(cards)))
  /\ []((lastWriter = "peer" /\ ~peer.savePending) =>
          historyStore = Item(Stringify(peer.cards)))

\* both sessions have saved; the store holds the History of the one that saved
\* last, and a card only the other session has is not in it
C16_Witness ==
  /\ lastWriter = "here"
  /\ ~savePending
  /\ peer.mounted /\ ~peer.savePending
  /\ historyStore = Item(Stringify(cards))
  /\ Ids(peer.cards) \ Ids(cards) # {}
  /\ Ids(cards) \ Ids(peer.cards) # {}

\* C17: when a request completes successfully after History was changed (by a
\* delete or an import-merge) while the request was outstanding, History becomes
\* the new card followed by the History of the moment of completion, and not the
\* new card followed by the History of the moment the request was issued.
C17_ChangesDuringRequestKept ==
  [][\A i \in DOMAIN requests :
       (AnalyzeSucceedsWithin(i, MaxAnalyzes) /\ requests[i].cards # cards) =>
         /\ cards' = <<cards'[1]>> \o cards
         /\ cards'[1].id \notin Ids(cards)
         /\ cards' # <<cards'[1]>> \o requests[i].cards]_vars

\* a request was issued on an empty History, a file was imported while it was
\* outstanding, and the request then succeeded: the imported card is behind the new
C17_Witness ==
  /\ last.op = "analyze"
  /\ last.count = 0
  /\ Len(cards) = 2
  /\ cards[1].id \in IssuedIds
  /\ cards[2].id = ForeignId

\* the effects of the first render and the save effect of the render of the loaded
\* cards have run, and no handler has set cards since
StartupSettled == last.op = "mount" /\ mounted /\ ~savePending

\* C18: once the startup effects have settled the component is alive and the
\* persisted history parses to an array equal to the in-memory History; it is the
\* previously stored text when JSON.parse accepted that text, and the empty array
\* when nothing was stored or JSON.parse rejected it.
C18_StartupLeavesStoreEqualToHistory ==
  StartupSettled =>
    /\ ~crashed
    /\ Parse(historyStore.text).kind = "array"
    /\ CardsOf(Parse(historyStore.text).elems) = cards
    /\ last.kind \in {"array", "other"} => historyStore = Item(last.text)
    /\ last.kind \in {"absent", "error"} => historyStore = Item(Stringify(<<>>))

====
